---- MODULE Spec2Model ----
(***************************************************************************)
(* pyDeepInsight: ImageTransformer and MRepImageTransformer                *)
(* (src/pyDeepInsight/image_transformer.py).                               *)
(*                                                                         *)
(* Conventions of the model                                                *)
(*  - a 2-D point is a pair <<x, y>> of integers; a list of points, a      *)
(*    feature->pixel mapping and a row of X are sequences, so feature f of *)
(*    the code (0-based) is index f+1 here.  Pixel rows and columns keep   *)
(*    the code's 0-based values.                                           *)
(*  - a floating-point value is an exact rational <<num, den>> in lowest   *)
(*    terms (den > 0).                                                     *)
(*  - a rotation by the angle of the direction <<a, b>> is applied without *)
(*    the factor 1/sqrt(a*a+b*b): the oriented positions are kept up to    *)
(*    that positive factor, which scale_coordinates (a min-max rescale)    *)
(*    cancels, and areas are compared after cross-multiplying by it.       *)
(*  - a call returns Ok(value) or raises Err(kind).  What a library call   *)
(*    leaves open (the start vertex of the hull, the choice among equally  *)
(*    good assignments, the clustering, the shuffle, the content of        *)
(*    np.empty memory) is a choice among all its outcomes.                 *)
(*                                                                         *)
(* Specifications                                                          *)
(*  - Spec: construction, fit and resize of one ImageTransformer.          *)
(*  - UseSpec: transform and inverse_transform on every transformer that   *)
(*    was constructed and fit at most once.                                *)
(*  - MRepSpec: construction, fit and extend_fit of one collator.          *)
(*  - MRepUseSpec: transform on every collator that was constructed and    *)
(*    fit at most once.                                                    *)
(*  - ReduceSpec: prediction_reduction on every input.                     *)
(***************************************************************************)
EXTENDS Integers, Sequences, FiniteSets, TLC

(***************************************************************************)
(* Bounds of the model                                                     *)
(***************************************************************************)
\* samples (rows of X) per call are 1..MaxSamples
MaxSamples == 2
\* the projector's fit_transform is called at most MaxCalls times per object
MaxCalls == 1
\* the feature values of the inputs X are 0..MaxValue
MaxValue == 6
\* prediction_reduction is given 1..MaxOutputs outputs
MaxOutputs == 3

(***************************************************************************)
(* Arithmetic helpers                                                      *)
(***************************************************************************)
Abs(x) == IF x < 0 THEN -x ELSE x

RECURSIVE GCD(_, _)
GCD(a, b) == IF b = 0 THEN a ELSE GCD(b, a % b)

\* the rational n/d (d > 0) in lowest terms
Rat(n, d) == LET g == GCD(Abs(n), d) IN <<n \div g, d \div g>>

\* an integer read as a float
ToFloat(x) == <<x, 1>>

RECURSIVE SumOver(_, _)
SumOver(S, f) ==
    IF S = {} THEN 0
    ELSE LET x == CHOOSE y \in S : TRUE IN f[x] + SumOver(S \ {x}, f)

SetMin(S) == CHOOSE x \in S : \A y \in S : x <= y
SetMax(S) == CHOOSE x \in S : \A y \in S : x >= y

Range(s) == {s[i] : i \in DOMAIN s}

\* f itself.  TLC keeps a function expression unevaluated and evaluates it
\* anew at every application; comparing it makes TLC tabulate it once.
Tabulate(f) == IF f = <<>> THEN f ELSE f

\* the sequences of length k of distinct elements of S
RECURSIVE InjSeqs(_, _)
InjSeqs(S, k) ==
    IF k = 0 THEN {<<>>}
    ELSE UNION {{Append(s, x) : x \in S \ Range(s)} : s \in InjSeqs(S, k - 1)}

\* the outcome of a call: the value it returns, or the exception it raises.
\* Two outcomes are told apart by ok before their values are compared.
Ok(v) == [ok |-> TRUE, val |-> v]
Err(kind) == [ok |-> FALSE, val |-> kind]

(***************************************************************************)
(* Geometry Aligner                                                        *)
(***************************************************************************)
Cross(o, p, q) == (p[1] - o[1]) * (q[2] - o[2]) - (p[2] - o[2]) * (q[1] - o[1])

\* scipy.spatial.ConvexHull(x_new).vertices: the hull's vertices in
\* counterclockwise order; which vertex comes first is qhull's choice, so
\* every rotation of the cycle is an outcome.  No outcome: QhullError.
ConvexHullVertices(pts) ==
    LET n == Len(pts)
        Next1(v, i) == v[(i % Len(v)) + 1]
        IsHull(v) ==
            /\ \A i \in 1..Len(v) :
                  Cross(pts[v[i]], pts[Next1(v, i)], pts[Next1(v, i + 1)]) > 0
            /\ \A i \in 1..Len(v) : \A p \in 1..n :
                  Cross(pts[v[i]], pts[Next1(v, i)], pts[p]) >= 0
    IN {v \in UNION {InjSeqs(1..n, k) : k \in 3..n} : IsHull(v)}

\* np.mod(np.arctan2(dy, dx), pi/2) as a direction in the first quadrant
\* [0, 90 degrees), in lowest terms
EdgeAngle(dx, dy) ==
    LET d == IF dx = 0 /\ dy = 0 THEN <<1, 0>>
             ELSE IF dx > 0 /\ dy >= 0 THEN <<dx, dy>>
             ELSE IF dx <= 0 /\ dy > 0 THEN <<dy, -dx>>
             ELSE IF dx < 0 /\ dy <= 0 THEN <<-dx, -dy>>
             ELSE <<-dy, dx>>
        g == GCD(d[1], d[2])
    IN <<d[1] \div g, d[2] \div g>>

AngleLess(d, e) == d[2] * e[1] < e[2] * d[1]

\* rotations[i] . p with rotations[i] = [[cos, -sin], [sin, cos]]
Rotate(d, p) == <<d[1] * p[1] - d[2] * p[2], d[2] * p[1] + d[1] * p[2]>>

\* edges = hull_points[1:] - hull_points[:-1]
HullEdges(hull_points) ==
    [i \in 1..(Len(hull_points) - 1) |->
        <<hull_points[i + 1][1] - hull_points[i][1],
          hull_points[i + 1][2] - hull_points[i][2]>>]

\* np.unique(angles): the distinct angles in ascending order
UniqueAngles(edges) ==
    LET A == {EdgeAngle(edges[i][1], edges[i][2]) : i \in DOMAIN edges}
    IN CHOOSE s \in InjSeqs(A, Cardinality(A)) :
          \A i \in 1..(Len(s) - 1) : AngleLess(s[i], s[i + 1])

\* (max_x - min_x) * (max_y - min_y) of the rotated hull, times d.d
BoxArea(d, hull_points) ==
    LET R == {Rotate(d, hull_points[i]) : i \in DOMAIN hull_points}
        xs == {p[1] : p \in R}
        ys == {p[2] : p \in R}
    IN (SetMax(xs) - SetMin(xs)) * (SetMax(ys) - SetMin(ys))

\* _minimum_bounding_rectangle: the rotation (as a direction) of the first
\* candidate of minimal area, np.argmin(areas)
MinimumBoundingRectangle(hull_points) ==
    LET angles == UniqueAngles(HullEdges(hull_points))
        NN(d) == d[1] * d[1] + d[2] * d[2]
        LeqArea(d, e) ==
            BoxArea(d, hull_points) * NN(e) <= BoxArea(e, hull_points) * NN(d)
        best_idx == CHOOSE i \in DOMAIN angles :
                       /\ \A j \in DOMAIN angles : LeqArea(angles[i], angles[j])
                       /\ \A j \in 1..(i - 1) : ~LeqArea(angles[j], angles[i])
    IN angles[best_idx]

\* np.dot(mbr_rot, x_new.T).T for every hull ordering qhull may return
OrientedPositions(x_new) ==
    {LET hull_points == [i \in DOMAIN v |-> x_new[v[i]]]
         rot == MinimumBoundingRectangle(hull_points)
     IN [i \in DOMAIN x_new |-> Rotate(rot, x_new[i])]
     : v \in ConvexHullVertices(x_new)}

(***************************************************************************)
(* Coordinate Scaler                                                       *)
(***************************************************************************)
\* scale_coordinates: (coords - min) / (max - min) * dim_max, per axis, as
\* the numerators num[i] over the per-axis denominators den.  A zero den is
\* the division 0/0 of the code (NaN).
scale_coordinates(coords, dim_max) ==
    LET xs == {coords[i][1] : i \in DOMAIN coords}
        ys == {coords[i][2] : i \in DOMAIN coords}
    IN [num |-> Tabulate([i \in DOMAIN coords |->
                    <<(coords[i][1] - SetMin(xs)) * dim_max[1],
                      (coords[i][2] - SetMin(ys)) * dim_max[2]>>]),
        den |-> <<SetMax(xs) - SetMin(xs), SetMax(ys) - SetMin(ys)>>]

(***************************************************************************)
(* Discretizer                                                             *)
(***************************************************************************)
\* DISCRETIZATION_OPTIONS
DISCRETIZATION_OPTIONS ==
    [bin |-> "coordinate_binning",
     assignment |-> "coordinate_optimal_assignment",
     lsa |-> "coordinate_optimal_assignment",
     ags |-> "coordinate_heuristic_assignment"]

\* _parse_discretization: cls.DISCRETIZATION_OPTIONS[method], a KeyError
\* for a key the table does not hold
parse_discretization(method) ==
    IF method \in DOMAIN DISCRETIZATION_OPTIONS
    THEN Ok(DISCRETIZATION_OPTIONS[method])
    ELSE Err("KeyError")

\* _parse_pixels: an int n (here the 1-tuple <<n>>) is the square (n, n)
parse_pixels(pixels) ==
    IF Len(pixels) = 1 THEN <<pixels[1], pixels[1]>> ELSE pixels

\* np.prod(px_size)
Prod(px_size) == px_size[1] * px_size[2]

\* the bin of one axis: floor, with the maximum moved into the lower bin
BinAxis(num, den, size) ==
    LET b == num \div den IN IF b = size THEN size - 1 ELSE b

\* coordinate_binning
coordinate_binning(position, px_size) ==
    LET scaled == scale_coordinates(position, px_size)
    IN [i \in DOMAIN position |->
          <<BinAxis(scaled.num[i][1], scaled.den[1], px_size[1]),
            BinAxis(scaled.num[i][2], scaled.den[2], px_size[2])>>]

\* A row of np.empty that no assignment wrote: the memory's previous
\* content.  Unset marks it; Uninitialised are the contents the model
\* draws for it, NaN being a bit pattern that is not a number.
Unset == <<"unset">>
NaN == <<>>
Uninitialised == {<<0, 2>>, <<5, 5>>, NaN}

\* the loop of calculate_pixel_centroids from its t-th iteration on,
\* (i, j) = (t div W, t mod W): px_map[i * px_size[0] + j] = [i, j].
\* Writing past the end of px_map is numpy's IndexError.
RECURSIVE FillPxMap(_, _, _)
FillPxMap(px_map, t, px_size) ==
    IF t = Prod(px_size) THEN Ok(px_map)
    ELSE LET i == t \div px_size[2]
             j == t % px_size[2]
             k == i * px_size[1] + j
         IN IF k \notin DOMAIN px_map THEN Err("IndexError")
            ELSE FillPxMap([px_map EXCEPT ![k] = <<i, j>>], t + 1, px_size)

\* calculate_pixel_centroids: px_map, to which the code adds 0.5; the
\* outcomes are an IndexError or one array per content of the unset rows
calculate_pixel_centroids(px_size) ==
    LET filled == FillPxMap([k \in 0..(Prod(px_size) - 1) |-> Unset], 0, px_size)
    IN IF ~filled.ok THEN {filled}
       ELSE LET px_map == filled.val
                unset == {k \in DOMAIN px_map : px_map[k] = Unset}
            IN {Ok([k \in DOMAIN px_map |->
                       IF k \in unset THEN g[k] ELSE px_map[k]])
                : g \in [unset -> Uninitialised]}

RECURSIVE LCM(_)
LCM(S) ==
    IF S = {} THEN 1
    ELSE LET x == CHOOSE y \in S : TRUE
             r == LCM(S \ {x})
         IN (x * r) \div GCD(x, r)

\* cdist(points, centroids) ** 2 where row r is the mean of the scaled
\* positions of members[r] (one feature, or a cluster): every entry times
\* the same factor (2 * den[1] * den[2] * L) ^ 2, L the least common
\* multiple of the member counts.  An entry against a NaN centroid is NaN,
\* which is written -1 here (a squared distance is never negative).
SquaredDistances(scaled, members, px_centers) ==
    LET L == LCM({Cardinality(members[r]) : r \in DOMAIN members})
        sx(r) == SumOver(members[r], [f \in DOMAIN scaled.num |-> scaled.num[f][1]])
        sy(r) == SumOver(members[r], [f \in DOMAIN scaled.num |-> scaled.num[f][2]])
        m(r) == Cardinality(members[r])
        dx(r, c) == (2 * sx(r) - (2 * c[1] + 1) * scaled.den[1] * m(r))
                        * scaled.den[2] * (L \div m(r))
        dy(r, c) == (2 * sy(r) - (2 * c[2] + 1) * scaled.den[2] * m(r))
                        * scaled.den[1] * (L \div m(r))
    IN Tabulate([r \in DOMAIN members |-> Tabulate([k \in DOMAIN px_centers |->
          IF px_centers[k] = NaN THEN -1
          ELSE dx(r, px_centers[k]) * dx(r, px_centers[k])
                 + dy(r, px_centers[k]) * dy(r, px_centers[k])])])

\* BisectingKMeans(n_clusters=k).fit(positions).labels_: the clustering is
\* an external algorithm with a random start; every labelling of the
\* features that uses each of the k labels is taken as an outcome.
ClusterLabels(n, k) ==
    {l \in [1..n -> 1..k] : {l[f] : f \in 1..n} = 1..k}

\* clustered_cdist
clustered_cdist(scaled, centroids, k) ==
    {Ok([dist |-> SquaredDistances(scaled,
                     [c \in 1..k |-> {f \in DOMAIN l : l[f] = c}], centroids),
         labels |-> l])
     : l \in ClusterLabels(Len(scaled.num), k)}

\* assignment_preprocessing: the outcomes (dist ** 2, labels), or an error
assignment_preprocessing(position, px_size, max_assignments) ==
    LET scaled == scale_coordinates(position, px_size)
        n == Len(position)
    IN UNION {
         IF ~px_centers.ok THEN {px_centers}
         ELSE IF n > max_assignments
              THEN clustered_cdist(scaled, px_centers.val, max_assignments)
              ELSE {Ok([dist |-> SquaredDistances(scaled,
                                    [f \in 1..n |-> {f}], px_centers.val),
                        labels |-> [f \in 1..n |-> f]])}
         : px_centers \in calculate_pixel_centroids(px_size)}

\* assignment_postprocessing: feature i is in cluster j = labels[i], which
\* the solution gives pixel k = solution[j]
assignment_postprocessing(position, px_size, solution, labels) ==
    [i \in DOMAIN position |->
        LET j == labels[i]
            ki == solution[j]
            xi == ki % px_size[1]
            yi == ki \div px_size[1]
        IN <<yi, xi>>]

HasNaN(cost) == \E r \in DOMAIN cost : \E k \in DOMAIN cost[r] : cost[r][k] < 0

\* scipy.optimize.linear_sum_assignment(cost)[1]: a column per row, all
\* distinct, of minimal total cost; which of several optima is scipy's
\* choice.  A cost matrix with a NaN entry is a ValueError.
linear_sum_assignment(cost) ==
    IF HasNaN(cost) THEN {Err("ValueError")}
    ELSE LET rows == DOMAIN cost
             cols == DOMAIN cost[1]
             Total(s) == SumOver(rows, [r \in rows |-> cost[r][s[r]]])
             all == InjSeqs(cols, Len(cost))
             best == SetMin({Total(s) : s \in all})
         IN {Ok(s) : s \in {t \in all : Total(t) = best}}

\* coordinate_optimal_assignment
coordinate_optimal_assignment(position, px_size) ==
    LET k == Prod(px_size)
    IN UNION {
         IF ~pre.ok THEN {pre}
         ELSE {IF ~lsa.ok THEN lsa
               ELSE Ok(assignment_postprocessing(position, px_size,
                                                 lsa.val, pre.val.labels))
               : lsa \in linear_sum_assignment(pre.val.dist)}
         : pre \in assignment_preprocessing(position, px_size, k)}

\* utils.asymmetric_greedy_search(cost, shuffle=True, minimize=True)[1],
\* from the rows still to assign: the cheapest remaining (row, column)
\* pair is assigned and its row and column leave; equal costs are taken in
\* the shuffled order, so each is an outcome.
RECURSIVE GreedyAssign(_, _, _, _)
GreedyAssign(cost, rows, cols, sol) ==
    IF rows = {} THEN {sol}
    ELSE LET least == SetMin({cost[r][c] : r \in rows, c \in cols})
         IN UNION {GreedyAssign(cost, rows \ {rc[1]}, cols \ {rc[2]},
                                [sol EXCEPT ![rc[1]] = rc[2]])
                   : rc \in {q \in rows \X cols : cost[q[1]][q[2]] = least}}

\* What the search does with a NaN cost is not stated: it raises, or it
\* never finds a NaN entry the cheapest.
asymmetric_greedy_search(cost) ==
    LET rows == DOMAIN cost
        cols == {k \in DOMAIN cost[1] : cost[1][k] >= 0}
    IN {Ok(s) : s \in GreedyAssign(cost, rows, cols, [r \in rows |-> 0])}
         \cup (IF HasNaN(cost) THEN {Err("ValueError")} ELSE {})

\* coordinate_heuristic_assignment
coordinate_heuristic_assignment(position, px_size) ==
    LET k == Prod(px_size) - 1
    IN UNION {
         IF ~pre.ok THEN {pre}
         ELSE {IF ~lsa.ok THEN lsa
               ELSE Ok(assignment_postprocessing(position, px_size,
                                                 lsa.val, pre.val.labels))
               : lsa \in asymmetric_greedy_search(pre.val.dist)}
         : pre \in assignment_preprocessing(position, px_size, k)}

\* self._dm(self._xrot, self._pixels): the outcomes of the discretizer
\* that _parse_discretization returned.  The minimum of an empty position
\* array (a transformer whose _xrot is still np.empty(0)) is a ValueError.
Discretize(dm, position, px_size) ==
    IF position = <<>> THEN {Err("ValueError")}
    ELSE IF dm = "coordinate_binning"
         THEN {Ok(coordinate_binning(position, px_size))}
    ELSE IF dm = "coordinate_optimal_assignment"
         THEN coordinate_optimal_assignment(position, px_size)
    ELSE coordinate_heuristic_assignment(position, px_size)

(***************************************************************************)
(* Single-Representation Transformer                                       *)
(*                                                                         *)
(* An ImageTransformer is the record of its fields _dm, _pixels, _xrot and *)
(* _coords (np.empty(0) is <<>>), with fe_calls, the number of calls of    *)
(* its projector's fit_transform.  An operation gives the outcomes         *)
(* [it |-> the object after the call, out |-> what the call returned].     *)
(***************************************************************************)
\* ImageTransformer.__init__
ImageTransformerInit(discretization, pixels) ==
    LET dm == parse_discretization(discretization)
    IN IF ~dm.ok THEN dm
       ELSE Ok([fe_calls |-> 0,
                dm |-> dm.val,
                pixels |-> parse_pixels(pixels),
                xrot |-> <<>>,
                coords |-> <<>>])

\* _calculate_coords: self._coords is assigned when the discretizer
\* returns, and keeps its value when it raises
calculate_coords(it) ==
    {IF px_coords.ok
     THEN [it |-> [it EXCEPT !.coords = px_coords.val], out |-> Ok("None")]
     ELSE [it |-> it, out |-> px_coords]
     : px_coords \in Discretize(it.dm, it.xrot, it.pixels)}

\* ImageTransformer.fit, x_new being what self._fe.fit_transform(X.T)
\* returns: one 2-D point per feature of X
ImageTransformerFit(it, x_new) ==
    LET called == [it EXCEPT !.fe_calls = @ + 1]
        xrots == OrientedPositions(x_new)
    IN IF xrots = {} THEN {[it |-> called, out |-> Err("QhullError")]}
       ELSE UNION {
              {[it |-> o.it, out |-> IF o.out.ok THEN Ok("self") ELSE o.out]
               : o \in calculate_coords([called EXCEPT !.xrot = xrot])}
              : xrot \in xrots}

\* the pixels setter: hasattr(self, '_coords') holds for every object, as
\* __init__ assigns _coords
SetPixels(it, pixels) ==
    calculate_coords([it EXCEPT !.pixels = parse_pixels(pixels)])

\* The transformer is Fit: fit moved it there by populating the oriented
\* positions and the mapping.
IsFit(it) == it.xrot # <<>> /\ it.coords # <<>>

(***************************************************************************)
(* Arrays: an n-dimensional array is its shape and its values by 0-based   *)
(* index tuple.                                                            *)
(***************************************************************************)
RECURSIVE Indices(_)
Indices(shape) ==
    IF shape = <<>> THEN {<<>>}
    ELSE {<<i>> \o t : i \in 0..(shape[1] - 1), t \in Indices(Tail(shape))}

NdArray(shape, F(_)) == [shape |-> shape, data |-> [ix \in Indices(shape) |-> F(ix)]]

\* the features (1-based) the mapping sends to pixel c
FeaturesAt(coords, c) == {f \in DOMAIN coords : coords[f] = c}

\* X[s, feats].mean()
Mean(row, feats) == Rat(SumOver(feats, row), Cardinality(feats))

\* _mat_to_rgb: np.repeat(mat[..., np.newaxis], 3, axis=-1)
mat_to_rgb(mat) ==
    NdArray(mat.shape \o <<3>>, LAMBDA ix : mat.data[SubSeq(ix, 1, Len(ix) - 1)])

\* _mat_to_pytorch: torch.from_numpy(mat).unsqueeze(1).repeat(1, 3, 1, 1)
mat_to_pytorch(mat) ==
    NdArray(<<mat.shape[1], 3>> \o Tail(mat.shape),
            LAMBDA ix : mat.data[<<ix[1]>> \o SubSeq(ix, 3, Len(ix))])

\* ImageTransformer.transform.  X is the sequence of its rows (samples),
\* each the sequence of its feature values.  Indexing img_matrix outside
\* the grid, or X at a column it does not have, is numpy's IndexError.
ImageTransformerTransform(it, X, img_format, empty_value) ==
    LET unq == Range(it.coords)
        H == it.pixels[1]
        W == it.pixels[2]
        InGrid(c) == c[1] \in 0..(H - 1) /\ c[2] \in 0..(W - 1)
        img_matrix ==
            NdArray(<<Len(X), H, W>>,
                    LAMBDA ix :
                       IF <<ix[2], ix[3]>> \in unq
                       THEN Mean(X[ix[1] + 1], FeaturesAt(it.coords, <<ix[2], ix[3]>>))
                       ELSE ToFloat(empty_value))
    IN IF \/ \E c \in unq : ~InGrid(c)
          \/ \E f \in DOMAIN it.coords : f > Len(X[1])
       THEN Err("IndexError")
       ELSE IF img_format = "rgb" THEN Ok(mat_to_rgb(img_matrix))
       ELSE IF img_format = "scalar" THEN Ok(img_matrix)
       ELSE IF img_format = "pytorch" THEN Ok(mat_to_pytorch(img_matrix))
       ELSE Err("ValueError")

\* img[..., self._coords[:, 0], self._coords[:, 1], ...]: the gather of
\* inverse_transform, lead and trail being the number of axes before and
\* after the two pixel axes.  self._coords[:, 0] of np.empty(0), and a
\* pixel outside the image, are IndexErrors.
Gather(it, img, lead, trail) ==
    LET n == Len(it.coords)
        rows == img.shape[lead + 1]
        cols == img.shape[lead + 2]
        pre(ix) == SubSeq(ix, 1, lead)
        post(ix) == SubSeq(ix, lead + 2, Len(ix))
    IN IF \/ it.coords = <<>>
          \/ \E f \in 1..n : ~(it.coords[f][1] < rows /\ it.coords[f][2] < cols)
       THEN Err("IndexError")
       ELSE Ok(NdArray(SubSeq(img.shape, 1, lead) \o <<n>>
                          \o SubSeq(img.shape, lead + 3, Len(img.shape)),
                       LAMBDA ix :
                          img.data[pre(ix) \o it.coords[ix[lead + 1] + 1] \o post(ix)]))

\* ImageTransformer.inverse_transform
ImageTransformerInverseTransform(it, img) ==
    LET ndim == Len(img.shape)
    IN IF ndim = 2 /\ img.shape = it.pixels
       THEN Gather(it, img, 0, 0)
       ELSE IF ndim = 3 /\ SubSeq(img.shape, 2, 3) = it.pixels
       THEN Gather(it, img, 1, 0)
       ELSE IF ndim = 3 /\ SubSeq(img.shape, 1, 2) = it.pixels
       THEN Gather(it, img, 0, 1)
       ELSE IF ndim = 4 /\ SubSeq(img.shape, 2, 3) = it.pixels
       THEN Gather(it, img, 1, 1)
       ELSE Err("ValueError")

\* ImageTransformer.feature_density_matrix: the number of features per
\* pixel.  Before fit, tuple(self._coords.T) is the empty tuple, an index
\* that selects the whole matrix, so np.add.at adds 1 to every pixel; a
\* numpy that rejects the empty index raises instead.
ImageTransformerFeatureDensityMatrix(it) ==
    IF it.coords = <<>>
    THEN {Ok(NdArray(it.pixels, LAMBDA ix : ToFloat(1))), Err("IndexError")}
    ELSE IF \E f \in DOMAIN it.coords :
               ~(it.coords[f][1] < it.pixels[1] /\ it.coords[f][2] < it.pixels[2])
    THEN {Err("IndexError")}
    ELSE {Ok(NdArray(it.pixels,
                     LAMBDA ix : ToFloat(Cardinality(FeaturesAt(it.coords, ix)))))}

(***************************************************************************)
(* Inputs                                                                  *)
(***************************************************************************)
\* discretization keys a caller passes, one of them not in the table
Keys == {"bin", "assignment", "lsa", "ags", "bogus"}

\* pixels arguments: the int 2, and grids wider than high and higher
\* than wide
PixelArgs == {<<2>>, <<1, 2>>, <<2, 3>>, <<3, 2>>}

\* what a projector returns: a right triangle, an obtuse triangle, a
\* rectangle, a triangle around an inner point, and three collinear points
Projections ==
    {<<<<0, 0>>, <<3, 0>>, <<0, 3>>>>,
     <<<<0, 0>>, <<4, 0>>, <<1, 1>>>>,
     <<<<0, 0>>, <<2, 0>>, <<2, 1>>, <<0, 1>>>>,
     <<<<0, 0>>, <<3, 1>>, <<1, 3>>, <<1, 1>>>>,
     <<<<0, 0>>, <<1, 1>>, <<2, 2>>>>}

ImageFormats == {"scalar", "rgb", "pytorch", "bogus"}
EmptyValues == {0, 5}

\* an input X of N samples and m features
XOf(N, m, seed) ==
    [s \in 1..N |-> [f \in 1..m |-> (seed + s * f) % (MaxValue + 1)]]

\* the transform calls on a transformer whose mapping has n entries: every
\* format, a non-zero fill value, and inputs of n - 1 and n + 1 features
TransformCalls(n) ==
    {[X |-> XOf(N, n, 0), img_format |-> fmt, empty_value |-> 0]
       : N \in 1..MaxSamples, fmt \in ImageFormats}
    \cup {[X |-> XOf(1, n, 1), img_format |-> "scalar", empty_value |-> e]
            : e \in EmptyValues}
    \cup {[X |-> XOf(1, m, 0), img_format |-> "scalar", empty_value |-> 0]
            : m \in {n - 1, n + 1} \ {0}}

\* an image of one of the layouts inverse_transform is given: its value
\* at batch b, row r, column c, channel ch tells the four apart
Pixel(px, b, r, c, ch) == ToFloat(((b * px[1] + r) * px[2] + c) * 3 + ch)

ImageOf(layout, B, px) ==
    IF layout = "HW"
    THEN NdArray(px, LAMBDA ix : Pixel(px, 0, ix[1], ix[2], 0))
    ELSE IF layout = "BHW"
    THEN NdArray(<<B>> \o px, LAMBDA ix : Pixel(px, ix[1], ix[2], ix[3], 0))
    ELSE IF layout = "HWC"
    THEN NdArray(px \o <<3>>, LAMBDA ix : Pixel(px, 0, ix[1], ix[2], ix[3]))
    ELSE IF layout = "BHWC"
    THEN NdArray(<<B>> \o px \o <<3>>,
                 LAMBDA ix : Pixel(px, ix[1], ix[2], ix[3], ix[4]))
    ELSE IF layout = "BCHW"
    THEN NdArray(<<B, 3>> \o px,
                 LAMBDA ix : Pixel(px, ix[1], ix[3], ix[4], ix[2]))
    ELSE NdArray(<<px[1] + 1, px[2]>>, LAMBDA ix : Pixel(px, 0, ix[1], ix[2], 0))

Layouts == {"HW", "BHW", "HWC", "BHWC", "BCHW", "other"}

(***************************************************************************)
(* Multi-Representation Collator                                           *)
(*                                                                         *)
(* An MRepImageTransformer is the record of its fields discretization,     *)
(* pixels, _its (a sequence of ImageTransformers) and _data (None is       *)
(* <<>>).  A representation's configuration is <<fe>>, a projector alone,  *)
(* or <<fe, discretization>>, the tuple form.                              *)
(***************************************************************************)
\* initialize_image_transformer
initialize_image_transformer(self, config) ==
    IF Len(config) = 2
    THEN ImageTransformerInit(config[2], self.pixels)
    ELSE ImageTransformerInit(self.discretization, self.pixels)

\* the loop "for it_cfg in feature_extractor" of __init__ from its i-th
\* configuration on
RECURSIVE InitializeFrom(_, _, _)
InitializeFrom(self, feature_extractor, i) ==
    IF i > Len(feature_extractor) THEN Ok(self)
    ELSE LET new == initialize_image_transformer(self, feature_extractor[i])
         IN IF ~new.ok THEN new
            ELSE InitializeFrom([self EXCEPT !.its = Append(@, new.val)],
                                feature_extractor, i + 1)

\* MRepImageTransformer.__init__
MRepInit(feature_extractor, discretization, pixels) ==
    InitializeFrom([discretization |-> discretization,
                    its |-> <<>>,
                    pixels |-> pixels,
                    data |-> <<>>],
                   feature_extractor, 1)

\* the loop "for it in self._its" of fit from its i-th transformer on,
\* x_news[i] being what the i-th projector returns
RECURSIVE FitFrom(_, _, _)
FitFrom(self, x_news, i) ==
    IF i > Len(self.its) THEN {[self |-> self, out |-> Ok("None")]}
    ELSE UNION {
           IF o.out.ok
           THEN FitFrom([self EXCEPT !.its[i] = o.it], x_news, i + 1)
           ELSE {[self |-> [self EXCEPT !.its[i] = o.it], out |-> o.out]}
           : o \in ImageTransformerFit(self.its[i], x_news[i])}

\* MRepImageTransformer.fit
MRepFit(self, X, x_news) == FitFrom([self EXCEPT !.data = X], x_news, 1)

\* the loop of extend_fit from its i-th configuration on.  None.T, the
\* fit of a collator that was never fit, is an AttributeError.
RECURSIVE ExtendFrom(_, _, _, _)
ExtendFrom(self, feature_extractor, x_news, i) ==
    IF i > Len(feature_extractor) THEN {[self |-> self, out |-> Ok("None")]}
    ELSE LET new == initialize_image_transformer(self, feature_extractor[i])
         IN IF ~new.ok THEN {[self |-> self, out |-> new]}
            ELSE IF self.data = <<>>
            THEN {[self |-> self, out |-> Err("AttributeError")]}
            ELSE UNION {
                   IF o.out.ok
                   THEN ExtendFrom([self EXCEPT !.its = Append(@, o.it)],
                                   feature_extractor, x_news, i + 1)
                   ELSE {[self |-> self, out |-> o.out]}
                   : o \in ImageTransformerFit(new.val, x_news[i])}

\* MRepImageTransformer.extend_fit
MRepExtendFit(self, feature_extractor, x_news) ==
    ExtendFrom(self, feature_extractor, x_news, 1)

\* np.concatenate(translist, axis=0) of arrays of one shape
Concatenate(translist) ==
    LET N == translist[1].shape[1]
    IN NdArray(<<Len(translist) * N>> \o Tail(translist[1].shape),
               LAMBDA ix : translist[(ix[1] \div N) + 1].data[<<ix[1] % N>> \o Tail(ix)])

\* np.stack(translist, axis=1)
Stack(translist) ==
    LET shape == translist[1].shape
    IN NdArray(<<shape[1], Len(translist)>> \o Tail(shape),
               LAMBDA ix : translist[ix[2] + 1].data[<<ix[1]>> \o Tail(Tail(ix))])

\* a.reshape(-1, *img_shape) of a of shape (N, R) + img_shape
ReshapeRows(a) ==
    LET R == a.shape[2]
    IN NdArray(<<a.shape[1] * R>> \o Tail(Tail(a.shape)),
               LAMBDA ix : a.data[<<ix[1] \div R, ix[1] % R>> \o Tail(ix)])

\* np.tile(np.arange(N), R) and np.repeat(np.arange(N), R), as sequences
Tile(N, R) == [p \in 1..(N * R) |-> (p - 1) % N]
Repeat(N, R) == [p \in 1..(N * R) |-> (p - 1) \div R]

\* a[p] for a permutation p of a's first axis (p a sequence of 0-based
\* positions)
TakeRows(a, p) ==
    NdArray(a.shape, LAMBDA ix : a.data[<<p[ix[1] + 1]>> \o Tail(ix)])

\* np.random.permutation(n)
permutation(n) == InjSeqs(0..(n - 1), n)

\* the collation of MRepImageTransformer.transform: the outcomes
\* (img_matrices, x_index).  np.concatenate of an empty list is a
\* ValueError, translist[0] of an empty list an IndexError.
Collate(translist, N, collate) ==
    LET R == Len(translist)
    IN IF collate = "manifold"
       THEN IF R = 0 THEN {Err("ValueError")}
            ELSE {Ok(<<Concatenate(translist), Tile(N, R)>>)}
       ELSE IF collate = "sample"
       THEN IF R = 0 THEN {Err("IndexError")}
            ELSE {Ok(<<ReshapeRows(Stack(translist)), Repeat(N, R)>>)}
       ELSE IF collate = "random"
       THEN IF R = 0 THEN {Err("ValueError")}
            ELSE {Ok(<<TakeRows(Concatenate(translist), p),
                       [q \in 1..(N * R) |-> Tile(N, R)[p[q] + 1]]>>)
                  : p \in permutation(N * R)}
       ELSE {Err("ValueError")}

\* translist = [it.transform(X, img_format, empty_value) for it in self._its]
TransList(self, X, img_format, empty_value) ==
    [i \in DOMAIN self.its |->
        ImageTransformerTransform(self.its[i], X, img_format, empty_value)]

\* MRepImageTransformer.transform
MRepTransform(self, X, img_format, empty_value, collate, return_index) ==
    LET translist == TransList(self, X, img_format, empty_value)
    IN IF \E i \in DOMAIN translist : ~translist[i].ok
       THEN {translist[CHOOSE i \in DOMAIN translist :
                          /\ ~translist[i].ok
                          /\ \A j \in 1..(i - 1) : translist[j].ok]}
       ELSE {IF ~c.ok THEN c
             ELSE IF return_index THEN c ELSE Ok(c.val[1])
             : c \in Collate([i \in DOMAIN translist |-> translist[i].val],
                             Len(X), collate)}

\* prediction_reduction with the outputs in the order in which their
\* indices first appear
prediction_reduction_unsorted(y_hat, index, reduction) ==
    LET index_set == Range(index)
        At(k) == {p \in DOMAIN index : index[p] = k}
        First(k) == SetMin(At(k))
        order == CHOOSE s \in InjSeqs(index_set, Cardinality(index_set)) :
                    \A i \in 1..(Len(s) - 1) : First(s[i]) < First(s[i + 1])
    IN IF reduction = "mean"
       THEN Ok([i \in DOMAIN order |-> Mean(y_hat, At(order[i]))])
       ELSE IF reduction = "sum"
       THEN Ok([i \in DOMAIN order |-> ToFloat(SumOver(At(order[i]), y_hat))])
       ELSE Err("ValueError")

\* MRepImageTransformer.prediction_reduction: y_hat and index are
\* sequences; np.unique(index) is the distinct indices in ascending order
prediction_reduction(y_hat, index, reduction) ==
    LET index_set == Range(index)
        At(k) == {p \in DOMAIN index : index[p] = k}
        order == CHOOSE s \in InjSeqs(index_set, Cardinality(index_set)) :
                    \A i \in 1..(Len(s) - 1) : s[i] < s[i + 1]
    IN IF reduction = "mean"
       THEN Ok([i \in DOMAIN order |-> Mean(y_hat, At(order[i]))])
       ELSE IF reduction = "sum"
       THEN Ok([i \in DOMAIN order |-> ToFloat(SumOver(At(order[i]), y_hat))])
       ELSE Err("ValueError")

(***************************************************************************)
(* Inputs of the collator                                                  *)
(***************************************************************************)
\* configurations of one representation: a projector alone, and tuples
\* with a key of the table and with one that is not in it
Configs == {<<"fe">>, <<"fe", "lsa">>, <<"fe", "bogus">>}

\* the feature_extractor lists: none, one and two representations
ConfigLists ==
    {<<>>} \cup {<<c>> : c \in Configs}
    \cup {<<<<"fe">>, <<"fe">>>>, <<<<"fe">>, <<"fe", "lsa">>>>,
          <<<<"fe", "lsa">>, <<"fe", "bogus">>>>}

\* collator-wide defaults and grids
DefaultKeys == {"bin", "bogus"}
MRepPixelArgs == {<<2>>, <<1, 2>>, <<3, 2>>}

\* what the projectors can return for an input of n features
ProjectionsOf(n) == {x_new \in Projections : Len(x_new) = n}
FeatureCounts == {Len(x_new) : x_new \in Projections}

Collations == {"manifold", "sample", "random", "bogus"}

\* the transform calls of the collator on inputs of n features: every
\* collation with and without the index, and every format
MRepTransformCalls(n) ==
    {[X |-> XOf(N, n, 0), img_format |-> "scalar", empty_value |-> 0,
      collate |-> c, return_index |-> ri]
       : N \in 1..MaxSamples, c \in Collations \ {"random"}, ri \in BOOLEAN}
    \cup {[X |-> XOf(N, n, 0), img_format |-> "scalar", empty_value |-> 0,
           collate |-> "random", return_index |-> TRUE] : N \in 1..MaxSamples}
    \cup {[X |-> XOf(MaxSamples, n, 1), img_format |-> fmt, empty_value |-> 5,
           collate |-> "sample", return_index |-> TRUE]
            : fmt \in ImageFormats \ {"scalar"}}

\* predictions and their source-sample indices: up to MaxOutputs
\* outputs, the indices need not be contiguous nor grouped; and the
\* scores 1, 2, 3, 4 of two representations of two samples
IndexValues == {0, 1, 3}
PredictionValues == {1, 2, MaxValue}
PredictionInputs ==
    UNION {{[y_hat |-> y, index |-> ix]
              : y \in [1..L -> PredictionValues], ix \in [1..L -> IndexValues]}
           : L \in 1..MaxOutputs}
    \cup {[y_hat |-> <<1, 2, 3, 4>>, index |-> <<0, 0, 1, 1>>]}
Reductions == {"mean", "sum", "bogus"}

(***************************************************************************)
(* The state machines.  it is an ImageTransformer, mrep a collator, and    *)
(* ret the record of the last call: the operation, its arguments and its   *)
(* outcome.                                                                *)
(***************************************************************************)
VARIABLES it, mrep, ret

vars == <<it, mrep, ret>>

ValidKeys == {k \in Keys : parse_discretization(k).ok}

\* every call of a fitted object's state starts from a constructed object
DefaultTransformer == ImageTransformerInit("bin", <<2>>).val
DefaultCollator == MRepInit(<<>>, "bin", <<2>>).val

\* ImageTransformer(fe, discretization, pixels)
Construct(discretization, pixels) ==
    LET new == ImageTransformerInit(discretization, pixels)
    IN /\ it' = IF new.ok THEN new.val ELSE it
       /\ ret' = [op |-> "init", discretization |-> discretization,
                  out |-> IF new.ok THEN Ok("None") ELSE new]
       /\ UNCHANGED mrep

\* it.fit(X), the projector returning x_new
Fit(x_new) ==
    /\ it.fe_calls < MaxCalls
    /\ \E o \in ImageTransformerFit(it, x_new) :
          /\ it' = o.it
          /\ ret' = [op |-> "fit", x_new |-> x_new, out |-> o.out]
    /\ UNCHANGED mrep

\* it.pixels = pixels
Resize(pixels) ==
    /\ \E o \in SetPixels(it, pixels) :
          /\ it' = o.it
          /\ ret' = [op |-> "pixels", pixels |-> pixels, out |-> o.out]
    /\ UNCHANGED mrep

\* it.transform(X, img_format, empty_value)
Transform(call) ==
    /\ ret' = [op |-> "transform", X |-> call.X, img_format |-> call.img_format,
               empty_value |-> call.empty_value,
               out |-> ImageTransformerTransform(it, call.X, call.img_format,
                                                 call.empty_value)]
    /\ UNCHANGED <<it, mrep>>

\* it.inverse_transform(img) of an image of the given layout
InverseTransform(layout, B) ==
    LET img == ImageOf(layout, B, it.pixels)
    IN /\ ret' = [op |-> "inverse_transform", layout |-> layout, img |-> img,
                  X |-> <<>>, out |-> ImageTransformerInverseTransform(it, img)]
       /\ UNCHANGED <<it, mrep>>

\* it.inverse_transform(it.transform(X, ...)): the image the last call
\* returned is given back
InverseOfTransform ==
    /\ ret.op = "transform"
    /\ ret.out.ok
    /\ ret' = [op |-> "inverse_transform", layout |-> ret.img_format,
               img |-> ret.out.val, X |-> ret.X,
               out |-> ImageTransformerInverseTransform(it, ret.out.val)]
    /\ UNCHANGED <<it, mrep>>

\* it.feature_density_matrix()
FeatureDensityMatrix ==
    /\ \E out \in ImageTransformerFeatureDensityMatrix(it) :
          ret' = [op |-> "feature_density_matrix", out |-> out]
    /\ UNCHANGED <<it, mrep>>

\* Construction, fit and resize of one transformer
Init ==
    /\ \E d \in ValidKeys, p \in PixelArgs :
          /\ it = ImageTransformerInit(d, p).val
          /\ ret = [op |-> "init", discretization |-> d, out |-> Ok("None")]
    /\ mrep = DefaultCollator

Next ==
    \/ \E d \in Keys, p \in PixelArgs : Construct(d, p)
    \/ \E x_new \in Projections : Fit(x_new)
    \/ \E p \in PixelArgs : Resize(p)

Spec == Init /\ [][Next]_vars

\* The calls that leave a transformer as it is, on every transformer that
\* was constructed and then fit at most once
UseInit ==
    /\ \E d \in ValidKeys, p \in PixelArgs :
          LET new == ImageTransformerInit(d, p).val
          IN \/ /\ it = new
                /\ ret = [op |-> "init", discretization |-> d, out |-> Ok("None")]
             \/ \E x_new \in Projections :
                   \E o \in ImageTransformerFit(new, x_new) :
                   /\ it = o.it
                   /\ ret = [op |-> "fit", x_new |-> x_new, out |-> o.out]
    /\ mrep = DefaultCollator

\* the feature count of the inputs the transformer is given: that of its
\* mapping, and before fit that of the smallest projection
Features == IF it.coords = <<>> THEN SetMin(FeatureCounts) ELSE Len(it.coords)

UseNext ==
    \/ \E call \in TransformCalls(Features) : Transform(call)
    \/ \E layout \in Layouts, B \in 1..MaxSamples : InverseTransform(layout, B)
    \/ InverseOfTransform
    \/ FeatureDensityMatrix

UseSpec == UseInit /\ [][UseNext]_vars

\* MRepImageTransformer(feature_extractor, discretization, pixels)
MRepConstruct(feature_extractor, discretization, pixels) ==
    LET new == MRepInit(feature_extractor, discretization, pixels)
    IN /\ mrep' = IF new.ok THEN new.val ELSE mrep
       /\ ret' = [op |-> "mrep_init", feature_extractor |-> feature_extractor,
                  discretization |-> discretization,
                  out |-> IF new.ok THEN Ok("None") ELSE new]
       /\ UNCHANGED it

\* the feature count of the inputs the collator is given
MRepFeatures == IF mrep.data = <<>> THEN SetMin(FeatureCounts) ELSE Len(mrep.data[1])

\* mrep.fit(X), the i-th projector returning x_news[i]
MRepFitCall(X, x_news) ==
    /\ \A i \in DOMAIN mrep.its : mrep.its[i].fe_calls < MaxCalls
    /\ \E o \in MRepFit(mrep, X, x_news) :
          /\ mrep' = o.self
          /\ ret' = [op |-> "mrep_fit", X |-> X, out |-> o.out]
    /\ UNCHANGED it

\* mrep.extend_fit(feature_extractor), the i-th new projector returning
\* x_news[i]
MRepExtendFitCall(feature_extractor, x_news) ==
    /\ Len(mrep.its) + Len(feature_extractor) <= SetMax({Len(l) : l \in ConfigLists})
    /\ \E o \in MRepExtendFit(mrep, feature_extractor, x_news) :
          /\ mrep' = o.self
          /\ ret' = [op |-> "extend_fit", feature_extractor |-> feature_extractor,
                     x_news |-> x_news, before |-> mrep, out |-> o.out]
    /\ UNCHANGED it

\* mrep.transform(X, img_format, empty_value, collate, return_index);
\* translist records what each representation returned
MRepTransformCall(call) ==
    /\ \E out \in MRepTransform(mrep, call.X, call.img_format, call.empty_value,
                                call.collate, call.return_index) :
          ret' = [op |-> "mrep_transform", X |-> call.X,
                  img_format |-> call.img_format, collate |-> call.collate,
                  return_index |-> call.return_index,
                  translist |-> TransList(mrep, call.X, call.img_format,
                                          call.empty_value),
                  out |-> out]
    /\ UNCHANGED <<it, mrep>>

\* MRepImageTransformer.prediction_reduction(y_hat, index, reduction), on
\* the arguments a caller has prepared
PredictionReduction ==
    /\ ret.op = "predictions"
    /\ ret' = [op |-> "prediction_reduction", y_hat |-> ret.y_hat,
               index |-> ret.index, reduction |-> ret.reduction,
               out |-> prediction_reduction(ret.y_hat, ret.index, ret.reduction)]
    /\ UNCHANGED <<it, mrep>>

\* Construction, fit and extension of one collator
MRepSpecInit ==
    /\ \E fe \in ConfigLists, d \in DefaultKeys, p \in MRepPixelArgs :
          LET new == MRepInit(fe, d, p)
          IN /\ new.ok
             /\ mrep = new.val
             /\ ret = [op |-> "mrep_init", feature_extractor |-> fe,
                       discretization |-> d, out |-> Ok("None")]
    /\ it = DefaultTransformer

MRepNext ==
    \/ \E fe \in ConfigLists, d \in DefaultKeys, p \in MRepPixelArgs :
          MRepConstruct(fe, d, p)
    \/ \E n \in FeatureCounts :
          \E x_news \in [DOMAIN mrep.its -> ProjectionsOf(n)] :
             MRepFitCall(XOf(MaxSamples, n, 0), x_news)
    \/ \E fe \in ConfigLists :
          \E x_news \in [DOMAIN fe -> ProjectionsOf(MRepFeatures)] :
             MRepExtendFitCall(fe, x_news)

MRepSpec == MRepSpecInit /\ [][MRepNext]_vars

\* transform on every collator that was constructed and then fit at most
\* once
MRepUseInit ==
    /\ \E fe \in ConfigLists, d \in DefaultKeys, p \in MRepPixelArgs :
          LET new == MRepInit(fe, d, p)
          IN /\ new.ok
             /\ \/ /\ mrep = new.val
                   /\ ret = [op |-> "mrep_init", feature_extractor |-> fe,
                             discretization |-> d, out |-> Ok("None")]
                \/ \E n \in FeatureCounts :
                      \E x_news \in [DOMAIN new.val.its -> ProjectionsOf(n)] :
                         \E o \in MRepFit(new.val, XOf(MaxSamples, n, 0), x_news) :
                            /\ mrep = o.self
                            /\ ret = [op |-> "mrep_fit", X |-> XOf(MaxSamples, n, 0),
                                      out |-> o.out]
    /\ it = DefaultTransformer

MRepUseNext ==
    \E call \in MRepTransformCalls(MRepFeatures) : MRepTransformCall(call)

MRepUseSpec == MRepUseInit /\ [][MRepUseNext]_vars

\* prediction_reduction on every input
ReduceInit ==
    /\ it = DefaultTransformer
    /\ mrep = DefaultCollator
    /\ \E in \in PredictionInputs, reduction \in Reductions :
          ret = [op |-> "predictions", y_hat |-> in.y_hat, index |-> in.index,
                 reduction |-> reduction]

ReduceNext == PredictionReduction

ReduceSpec == ReduceInit /\ [][ReduceNext]_vars

(***************************************************************************)
(* Properties                                                              *)
(***************************************************************************)
\* (row, col) is a pixel of the grid px_size
InGrid(c, px_size) == c[1] \in 0..(px_size[1] - 1) /\ c[2] \in 0..(px_size[2] - 1)

\* every entry of the stored mapping is a pixel of the stored grid
MappingInGrid(t) == \A f \in DOMAIN t.coords : InGrid(t.coords[f], t.pixels)

\* no two features share a pixel
OneToOne(coords) ==
    \A f, g \in DOMAIN coords : coords[f] = coords[g] => f = g

\* C1: after every fit and every resize that returns, for each
\* discretization strategy and each grid (H, W), every entry (row, col) of
\* the stored mapping has 0 <= row < H and 0 <= col < W.
C1_MappingWithinGrid ==
    (ret.op \in {"fit", "pixels"} /\ ret.out.ok) => MappingInGrid(it)

\* C2: exact assignment of n <= H*W features to the grid (H, W) results in
\* a mapping of n entries in which no two features share a pixel.
C2_ExactAssignmentOneToOne ==
    (/\ ret.op \in {"fit", "pixels"}
     /\ it.dm = "coordinate_optimal_assignment"
     /\ it.xrot # <<>>
     /\ Len(it.xrot) <= Prod(it.pixels))
    => /\ ret.out.ok
       /\ Len(it.coords) = Len(it.xrot)
       /\ OneToOne(it.coords)

\* C4: assigning a grid to a Fit transformer does not call the projector,
\* leaves the oriented positions as they are, and leaves the transformer
\* Fit with the mapping the discretizer gives for those positions and the
\* new grid.
C4_ResizeRecomputesOnlyMapping ==
    [][(IsFit(it) /\ ret'.op = "pixels")
       => /\ it'.fe_calls = it.fe_calls
          /\ it'.xrot = it.xrot
          /\ IsFit(it')
          /\ it'.pixels = parse_pixels(ret'.pixels)
          /\ Ok(it'.coords) \in Discretize(it'.dm, it'.xrot, it'.pixels)]_vars

\* the rows of X as the array inverse_transform returns for a batch
AsArray(X) ==
    NdArray(<<Len(X), Len(X[1])>>, LAMBDA ix : ToFloat(X[ix[1] + 1][ix[2] + 1]))

\* the last call was given an input with the fit-time feature count
FitTimeFeatureCount == Len(ret.X[1]) = Len(it.coords)

\* C3: for a Fit transformer whose mapping has no pixel collisions and an
\* input X with the fit-time feature count, transform(X, 'scalar') returns
\* an image and inverse_transform of that image returns X, value for value,
\* in the original sample and feature order.
C3_RoundTrip ==
    (IsFit(it) /\ OneToOne(it.coords))
    => /\ (/\ ret.op = "transform"
           /\ ret.img_format = "scalar"
           /\ FitTimeFeatureCount) => ret.out.ok
       /\ (/\ ret.op = "inverse_transform"
           /\ ret.X # <<>>
           /\ ret.layout = "scalar"
           /\ FitTimeFeatureCount) => ret.out = Ok(AsArray(ret.X))

\* C8: transform on a Fit transformer with an input of fewer or of more
\* features than the fit-time feature count fails with an error and
\* returns no image matrix.
C8_FeatureCountMismatchFails ==
    (/\ ret.op = "transform"
     /\ IsFit(it)
     /\ ~FitTimeFeatureCount) => ~ret.out.ok

\* what inverse_transform is to return for an image of the layout: the
\* image value at the stored pixel of each feature, per sample and channel
Gathered(layout, img) ==
    LET n == Len(it.coords)
        At(f) == it.coords[f + 1]
    IN IF layout = "HW"
       THEN NdArray(<<n>>, LAMBDA ix : img.data[At(ix[1])])
       ELSE IF layout = "BHW"
       THEN NdArray(<<img.shape[1], n>>,
                    LAMBDA ix : img.data[<<ix[1]>> \o At(ix[2])])
       ELSE IF layout = "HWC"
       THEN NdArray(<<n, img.shape[3]>>,
                    LAMBDA ix : img.data[At(ix[1]) \o <<ix[2]>>])
       ELSE IF layout = "BHWC"
       THEN NdArray(<<img.shape[1], n, img.shape[4]>>,
                    LAMBDA ix : img.data[<<ix[1]>> \o At(ix[2]) \o <<ix[3]>>])
       ELSE NdArray(<<img.shape[1], img.shape[2], n>>,
                    LAMBDA ix : img.data[<<ix[1], ix[2]>> \o At(ix[3])])

\* C9: for a Fit transformer with grid (H, W), inverse_transform of an
\* image (H, W), (B, H, W), (H, W, C), (B, H, W, C) or (B, C, H, W) returns
\* the image value at the stored pixel of each feature, in feature order;
\* an input of any other shape fails with an error.
C9_InverseTransformLayouts ==
    (/\ ret.op = "inverse_transform"
     /\ ret.X = <<>>
     /\ IsFit(it)
     /\ MappingInGrid(it))
    => IF ret.layout = "other" THEN ~ret.out.ok
       ELSE ret.out = Ok(Gathered(ret.layout, ret.img))

\* C10: for a Fit transformer, transform(X, 'scalar', empty_value=v)
\* returns, for every sample s and pixel (r, c), the mean of X[s, f] over
\* the features f mapped to (r, c), and v where no feature is mapped.
C10_TransformMeanOrEmpty ==
    (/\ ret.op = "transform"
     /\ ret.img_format = "scalar"
     /\ IsFit(it)
     /\ FitTimeFeatureCount)
    => /\ ret.out.ok
       /\ ret.out.val.shape = <<Len(ret.X)>> \o it.pixels
       /\ \A s \in DOMAIN ret.X, r \in 0..(it.pixels[1] - 1), c \in 0..(it.pixels[2] - 1) :
             LET feats == {f \in DOMAIN it.coords : it.coords[f] = <<r, c>>}
             IN ret.out.val.data[<<s - 1, r, c>>] =
                  IF feats = {} THEN ToFloat(ret.empty_value)
                  ELSE Rat(SumOver(feats, ret.X[s]), Cardinality(feats))

\* the image at position p of a collated batch
ImageAt(imgs, p) == [t \in Indices(Tail(imgs.shape)) |-> imgs.data[<<p>> \o t]]

\* the pair the collator returns at position p is representation r's
\* image of sample s and the index s (r, s and p are 0-based)
PairIs(p, r, s) ==
    /\ ImageAt(ret.out.val[1], p) = ImageAt(ret.translist[r + 1].val, s)
    /\ ret.out.val[2][p + 1] = s

\* C5: transform with R representations and N samples returns R*N images
\* and an index aligned with them: 'manifold' has representation
\* (p div N)'s image of sample (p mod N) at position p, 'sample' has
\* representation (p mod R)'s image of sample (p div R), and 'random' is a
\* permutation of the 'manifold' sequence of (image, index) pairs.
C5_CollationIndex ==
    (/\ ret.op = "mrep_transform"
     /\ ret.return_index
     /\ ret.collate \in {"manifold", "sample", "random"}
     /\ ret.img_format \in {"scalar", "rgb", "pytorch"}
     /\ mrep.its # <<>>
     /\ \A i \in DOMAIN mrep.its : IsFit(mrep.its[i]))
    => LET R == Len(mrep.its)
           N == Len(ret.X)
           P == 0..(R * N - 1)
       IN /\ ret.out.ok
          /\ ret.out.val[1].shape[1] = R * N
          /\ Len(ret.out.val[2]) = R * N
          /\ ret.collate = "manifold" => \A p \in P : PairIs(p, p \div N, p % N)
          /\ ret.collate = "sample" => \A p \in P : PairIs(p, p % R, p \div R)
          /\ ret.collate = "random" =>
                \E q \in permutation(R * N) :
                   \A p \in P : PairIs(p, q[p + 1] \div N, q[p + 1] % N)

\* the positions of the outputs with index k, and the number of distinct
\* indices below k
OutputsOf(index, k) == {p \in DOMAIN index : index[p] = k}
RankOf(index, k) == Cardinality({j \in Range(index) : j < k})

\* C6: prediction_reduction returns one value per distinct index, in
\* ascending order of the index; the value for index k is the mean or the
\* sum of the y_hat[p] with index[p] = k, whatever the order in which the
\* (y_hat[p], index[p]) pairs appear.
C6_PredictionReduction ==
    (ret.op = "prediction_reduction" /\ ret.reduction \in {"mean", "sum"})
    => /\ ret.out.ok
       /\ Len(ret.out.val) = Cardinality(Range(ret.index))
       /\ \A k \in Range(ret.index) :
             LET total == SumOver(OutputsOf(ret.index, k), ret.y_hat)
                 count == Cardinality(OutputsOf(ret.index, k))
             IN ret.out.val[RankOf(ret.index, k) + 1] =
                   IF ret.reduction = "mean" THEN Rat(total, count)
                   ELSE ToFloat(total)
       /\ \A q \in permutation(Len(ret.index)) :
             prediction_reduction([p \in DOMAIN ret.y_hat |-> ret.y_hat[q[p] + 1]],
                                  [p \in DOMAIN ret.index |-> ret.index[q[p] + 1]],
                                  ret.reduction) = ret.out

\* C6, reached: the scores 1, 2, 3, 4 with index 0, 0, 1, 1 reduce to the
\* means 1.5 and 3.5, and outputs whose indices are neither grouped nor
\* ascending have been reduced
C6_Reached ==
    \/ /\ ret.op = "prediction_reduction"
       /\ ret.y_hat = <<1, 2, 3, 4>>
       /\ ret.index = <<0, 0, 1, 1>>
       /\ ret.reduction = "mean"
       /\ ret.out = Ok(<<Rat(3, 2), Rat(7, 2)>>)
    \/ /\ ret.op = "prediction_reduction"
       /\ ret.index = <<3, 0, 3>>
       /\ ret.y_hat = <<1, 2, MaxValue>>
       /\ ret.reduction = "sum"
       /\ ret.out.ok

\* the last call was given a discretization key, an image encoding, a
\* collation mode or a reduction mode that does not exist
UnknownName ==
    \/ /\ ret.op = "init"
       /\ ret.discretization \notin ValidKeys
    \/ /\ ret.op = "mrep_init"
       /\ \/ ret.discretization \notin ValidKeys
          \/ \E i \in DOMAIN ret.feature_extractor :
                /\ Len(ret.feature_extractor[i]) = 2
                /\ ret.feature_extractor[i][2] \notin ValidKeys
    \/ /\ ret.op \in {"transform", "mrep_transform"}
       /\ ret.img_format \notin {"scalar", "rgb", "pytorch"}
    \/ /\ ret.op = "mrep_transform"
       /\ ret.collate \notin {"manifold", "sample", "random"}
    \/ /\ ret.op = "prediction_reduction"
       /\ ret.reduction \notin {"mean", "sum"}

\* C7: a call that is given an unknown discretization key, image
\* encoding, collation mode or reduction mode fails with an error, and
\* leaves the transformer and the collator as they were.
C7_UnknownNameFails ==
    [][UnknownName' => (~ret'.out.ok /\ it' = it /\ mrep' = mrep)]_vars

\* the key a configuration of the collator self is discretized with
KeyOf(self, config) == IF Len(config) = 2 THEN config[2] ELSE self.discretization

\* C11: after fit(X), extend_fit(configs) leaves the owned representations
\* at their positions with their oriented positions and mappings and does
\* not call their projectors, leaves the retained copy of X as it is, and
\* appends one new fitted representation per config, in config order, fit
\* once on the retained data.
C11_ExtendFitAppends ==
    [][(ret'.op = "extend_fit" /\ mrep.data # <<>>)
       => LET configs == ret'.feature_extractor
              old == Len(mrep.its)
          IN /\ \A i \in 1..old : Len(mrep'.its) >= i /\ mrep'.its[i] = mrep.its[i]
             /\ mrep'.data = mrep.data
             /\ (/\ \A j \in DOMAIN configs : KeyOf(mrep, configs[j]) \in ValidKeys
                 /\ \A j \in DOMAIN configs : OrientedPositions(ret'.x_news[j]) # {})
                => /\ ret'.out.ok
                   /\ Len(mrep'.its) = old + Len(configs)
                   /\ \A j \in DOMAIN configs :
                         LET new == mrep'.its[old + j]
                         IN /\ IsFit(new)
                            /\ new.fe_calls = 1
                            /\ new.dm = parse_discretization(KeyOf(mrep, configs[j])).val
                            /\ new.pixels = parse_pixels(mrep.pixels)
                            /\ new.xrot \in OrientedPositions(ret'.x_news[j])
                            /\ Len(new.coords) = Len(mrep.data[1])]_vars

\* the transformer was never fit
NeverFit(t) == t.fe_calls = 0

\* C12: a transformer that was never fit is Unfit, and while it is, each
\* of transform, inverse_transform and feature_density_matrix fails with
\* an error instead of returning a result.
C12_UnfitRejectsQueries ==
    NeverFit(it)
    => /\ ~IsFit(it)
       /\ ret.op \in {"transform", "inverse_transform", "feature_density_matrix"}
             => ~ret.out.ok

\* the pixel (row, col) that assignment_postprocessing gives a feature whose
\* cluster the solution maps to the index k
DecodedPixel(k, px_size) ==
    assignment_postprocessing(<<<<0, 0>>>>, px_size, <<k>>, <<1>>)[1]

\* C13: for the grid (H, W) of the transformer, square or not,
\* calculate_pixel_centroids returns, and gives every pixel (i, j) exactly
\* one index k in 0..H*W-1 (px_map[k] = (i, j), the centroid less 0.5), so
\* that no index is written twice or left unset, and
\* assignment_postprocessing decodes that k to (row, col) = (i, j).
C13_CentroidIndexConsistent ==
    \A px_centers \in calculate_pixel_centroids(it.pixels) :
        /\ px_centers.ok
        /\ \A i \in 0..(it.pixels[1] - 1) : \A j \in 0..(it.pixels[2] - 1) :
              \E k \in 0..(Prod(it.pixels) - 1) :
                  /\ px_centers.val[k] = <<i, j>>
                  /\ \A k2 \in 0..(Prod(it.pixels) - 1) :
                        px_centers.val[k2] = <<i, j>> => k2 = k
                  /\ DecodedPixel(k, it.pixels) = <<i, j>>

\* the edges of the closed hull polygon: those between consecutive vertices
\* and the closing edge from the last vertex back to the first
ClosedHullEdges(hull_points) ==
    [i \in 1..Len(hull_points) |->
        LET q == hull_points[(i % Len(hull_points)) + 1]
        IN <<q[1] - hull_points[i][1], q[2] - hull_points[i][2]>>]

\* the first (smallest-angle) of the candidates of minimal bounding-box area
FirstMinimalCandidate(angles, hull_points) ==
    LET NN(d) == d[1] * d[1] + d[2] * d[2]
        LeqArea(d, e) ==
            BoxArea(d, hull_points) * NN(e) <= BoxArea(e, hull_points) * NN(d)
    IN angles[CHOOSE i \in DOMAIN angles :
                 /\ \A j \in DOMAIN angles : LeqArea(angles[i], angles[j])
                 /\ \A j \in 1..(i - 1) : ~LeqArea(angles[j], angles[i])]

\* C14: the rotation that fit applies to the projection is, for the hull
\* vertices in their order, the candidate of minimal axis-aligned
\* bounding-box area among the candidates of the angles (mod 90 degrees) of
\* all n edges of the closed hull polygon, the closing edge included, and
\* the first of them when several are minimal.
C14_AllEdgesOfClosedHull ==
    (ret.op = "fit" /\ it.xrot # <<>>)
    => \E v \in ConvexHullVertices(ret.x_new) :
          LET hull_points == [i \in DOMAIN v |-> ret.x_new[v[i]]]
              angles == UniqueAngles(ClosedHullEdges(hull_points))
              rot == FirstMinimalCandidate(angles, hull_points)
          IN it.xrot = [i \in DOMAIN ret.x_new |-> Rotate(rot, ret.x_new[i])]

====
